---------------------------- MODULE Spec2Model ----------------------------
(***************************************************************************)
(* Model of the balance-lookup client of Bitcoin-Recovery:                 *)
(*   BlockchainAPI (src/src/utils/blockchain.js) and the ProxyManager it   *)
(*   owns (src/unnamed/part_003, imported as ./proxy.js), and the hunting  *)
(*   loop of BitcoinMnemonicHunter (src/unnamed/part_004) that calls it.   *)
(*                                                                         *)
(* JavaScript runs one job at a time: the code between two awaits is one   *)
(* atomic action here.  Promise continuations (microtasks) run before the  *)
(* next timer or socket event (macrotask).                                 *)
(***************************************************************************)
EXTENDS Integers, Naturals, Sequences, FiniteSets, TLC

(***************************************************************************)
(* Bounds of the model and constants of the program                        *)
(***************************************************************************)

\* providers.length: the registry literal holds three providers
NumProviders == 3

\* hourly quotas (rateLimit) of the three providers, scaled down from
\* 200 / 300 / 600 so that a provider at quota is reachable
QuotaBlockCypher == 1
QuotaBlockchainInfo == 1
QuotaBlockstream == 1

\* this.retryAttempts: options.retryAttempts || 3
RetryAttempts == 3

\* this.retryDelay in ms: options.retryDelay || 1000
RetryDelay == 1000

\* largest options.rateLimitPerSecond (the p-limit concurrency) explored
MaxConcurrent == 2

\* largest number of addresses a caller checks in one behaviour
MaxChecks == 2

\* length of one quota window in clock ticks (1000 * 60 * 60 ms in the code)
Hour == 2

\* last clock tick explored
MaxTime == 3

\* frames the engine's call stack holds before RangeError
StackLimit == 4

\* the "small constant" of a rotation cap of registry size times a constant
RotationFactor == 2

\* options.proxyRotationInterval (default 5), scaled
RotationInterval == 2

Providers == 0 .. (NumProviders - 1)

\* providers[i].name
ProviderName(i) ==
  CASE i = 0 -> "BlockCypher"
    [] i = 1 -> "Blockchain.info"
    [] OTHER -> "Blockstream"

\* providers[i].rateLimit
rateLimit(i) ==
  CASE i = 0 -> QuotaBlockCypher
    [] i = 1 -> QuotaBlockchainInfo
    [] OTHER -> QuotaBlockstream

None == "none"

(***************************************************************************)
(* Text: a string is the sequence of its characters                        *)
(***************************************************************************)

\* String.prototype.trim on the characters the proxy file is made of
RECURSIVE TrimStart(_)
TrimStart(s) ==
  IF s # << >> /\ Head(s) = " " THEN TrimStart(Tail(s)) ELSE s

RECURSIVE TrimEnd(_)
TrimEnd(s) ==
  IF s # << >> /\ s[Len(s)] = " "
  THEN TrimEnd(SubSeq(s, 1, Len(s) - 1))
  ELSE s

Trim(s) == TrimEnd(TrimStart(s))

\* String.prototype.split(sep): the pieces between the separators; a string
\* without separator is one piece, the empty string too
RECURSIVE SplitFrom(_, _, _)
SplitFrom(s, sep, piece) ==
  IF s = << >>
  THEN <<piece>>
  ELSE IF Head(s) = sep
       THEN <<piece>> \o SplitFrom(Tail(s), sep, << >>)
       ELSE SplitFrom(Tail(s), sep, Append(piece, Head(s)))

Split(s, sep) == SplitFrom(s, sep, << >>)

\* Array.prototype.join(sep)
RECURSIVE Join(_, _)
Join(pieces, sep) ==
  IF pieces = << >>
  THEN << >>
  ELSE IF Len(pieces) = 1
       THEN pieces[1]
       ELSE pieces[1] \o <<sep>> \o Join(Tail(pieces), sep)

\* the decimal digits and their values
Digits == <<"0", "1", "2", "3", "4", "5", "6", "7", "8", "9">>

IsDigit(c) == \E d \in 1 .. Len(Digits) : Digits[d] = c

DigitValue(c) == (CHOOSE d \in 1 .. Len(Digits) : Digits[d] = c) - 1

\* what parseInt yields for a string without leading digits
NaN == -1

\* the number the leading digits of s denote, continuing from acc
RECURSIVE ReadDigits(_, _)
ReadDigits(s, acc) ==
  IF s # << >> /\ IsDigit(Head(s))
  THEN ReadDigits(Tail(s), 10 * acc + DigitValue(Head(s)))
  ELSE acc

\* parseInt(s): leading white space is skipped, then the digits are read
parseInt(s) ==
  LET t == TrimStart(s)
  IN IF t # << >> /\ IsDigit(Head(t)) THEN ReadDigits(t, 0) ELSE NaN

(***************************************************************************)
(* ProxyManager, as operators on the manager's fields                      *)
(*   pm = [proxies, currentProxyIndex, failedProxies, proxyStats,          *)
(*         requestCount]                                                   *)
(* A proxy is the object parseProxy builds; its id is the text of its line *)
(***************************************************************************)

\* auth: null
NoAuth == [given |-> FALSE, username |-> << >>, password |-> << >>]

\* auth: { username, password }
Auth(username, password) ==
  [given |-> TRUE, username |-> username, password |-> password]

\* null where a proxy is expected
NoProxy == [id |-> None]

\* a parser that takes every line with at least two fields as host:port
parseProxy_Lenient(proxyString) ==
  LET parts == Split(proxyString, ":")
  IN IF Len(parts) >= 2
     THEN [id |-> proxyString, host |-> parts[1], port |-> parseInt(parts[2]),
           auth |-> NoAuth,
           url |-> <<"http://">> \o parts[1] \o <<":">> \o parts[2]]
     ELSE NoProxy

\* parseProxy(proxyString): the proxy object, or null
parseProxy(proxyString) ==
  LET parts == Split(proxyString, ":")
  IN IF Len(parts) = 2
     THEN [id |-> proxyString, host |-> parts[1], port |-> parseInt(parts[2]),
           auth |-> NoAuth,
           url |-> <<"http://">> \o parts[1] \o <<":">> \o parts[2]]
     ELSE IF Len(parts) = 4
          THEN [id |-> proxyString, host |-> parts[1],
                port |-> parseInt(parts[2]),
                auth |-> Auth(parts[3], parts[4]),
                url |-> <<"http://">> \o parts[3] \o <<":">> \o parts[4]
                          \o <<"@">> \o parts[1] \o <<":">> \o parts[2]]
          ELSE NoProxy

\* line => line.trim(): a line that is not blank
NotBlank(line) == Trim(line) # << >>

\* filter(Boolean): a proxy that was parsed
IsProxy(proxy) == proxy # NoProxy

\* loadProxies, line 29-31: the proxies the lines of the file yield
ParseLines(data) ==
  LET lines == SelectSeq(Split(data, "\n"), NotBlank)
      parsed == [i \in 1 .. Len(lines) |-> parseProxy(Trim(lines[i]))]
  IN SelectSeq(parsed, IsProxy)

\* the ids of a list of proxies
ProxyIds(proxies) == {proxies[i].id : i \in 1 .. Len(proxies)}

ZeroStats == [requests |-> 0, successes |-> 0, failures |-> 0]

\* a reload that keeps the proxies it had and adds the file's to them
loadProxies_Append(pm, data) ==
  LET proxies == pm.proxies \o ParseLines(data)
  IN [pm EXCEPT !.proxies = proxies,
                !.proxyStats = [id \in ProxyIds(proxies) |-> ZeroStats]]

\* loadProxies() on a file with text data: this.proxies is replaced and
\* the statistics of every proxy loaded are set to zero
loadProxies(pm, data) ==
  LET proxies == ParseLines(data)
  IN [pm EXCEPT
        !.proxies = proxies,
        !.proxyStats =
          [id \in (DOMAIN pm.proxyStats) \cup ProxyIds(proxies) |->
             IF id \in ProxyIds(proxies) THEN ZeroStats ELSE pm.proxyStats[id]]]

\* constructor: the fields set in line 12-17, then loadProxies(); a file
\* that does not exist loads like an empty one
NewProxyManager(data) ==
  loadProxies([proxies |-> << >>,
               currentProxyIndex |-> 0,
               failedProxies |-> {},
               proxyStats |-> << >>,
               requestCount |-> 0],
              data)

\* the while loop of getCurrentProxy: skip failed proxies, at most
\* proxies.length times; yields the cursor and the proxy found (or null)
RECURSIVE SkipFailed(_, _, _)
SkipFailed(pm, idx, attempts) ==
  IF attempts >= Len(pm.proxies)
  THEN [idx |-> idx, proxy |-> NoProxy]
  ELSE IF pm.proxies[idx + 1].id \notin pm.failedProxies
       THEN [idx |-> idx, proxy |-> pm.proxies[idx + 1]]
       ELSE SkipFailed(pm, (idx + 1) % Len(pm.proxies), attempts + 1)

\* a getCurrentProxy that hands out a proxy of an exhausted pool without
\* emptying the failed set
GetCurrentProxy_KeepFailed(pm) ==
  IF Len(pm.proxies) = 0
  THEN [pm |-> pm, proxy |-> NoProxy]
  ELSE LET r == SkipFailed(pm, pm.currentProxyIndex, 0)
           moved == [pm EXCEPT !.currentProxyIndex = r.idx]
       IN IF r.proxy # NoProxy
          THEN [pm |-> moved, proxy |-> r.proxy]
          ELSE IF Cardinality(pm.failedProxies) = Len(pm.proxies)
               THEN [pm |-> moved, proxy |-> pm.proxies[r.idx + 1]]
               ELSE [pm |-> moved, proxy |-> NoProxy]

\* getCurrentProxy(): [pm |-> manager afterwards, proxy |-> returned proxy]
GetCurrentProxy(pm) ==
  IF Len(pm.proxies) = 0
  THEN [pm |-> pm, proxy |-> NoProxy]
  ELSE LET r == SkipFailed(pm, pm.currentProxyIndex, 0)
           moved == [pm EXCEPT !.currentProxyIndex = r.idx]
       IN IF r.proxy # NoProxy
          THEN [pm |-> moved, proxy |-> r.proxy]
          ELSE IF Cardinality(pm.failedProxies) = Len(pm.proxies)
               THEN [pm |-> [moved EXCEPT !.failedProxies = {}],
                     proxy |-> pm.proxies[r.idx + 1]]
               ELSE [pm |-> moved, proxy |-> NoProxy]

\* resetFailedProxies()
ResetFailedProxies(pm) == [pm EXCEPT !.failedProxies = {}]

\* getNextProxy()
GetNextProxy(pm) ==
  IF Len(pm.proxies) = 0
  THEN [pm |-> pm, proxy |-> NoProxy]
  ELSE GetCurrentProxy(
         [pm EXCEPT !.currentProxyIndex =
                      (pm.currentProxyIndex + 1) % Len(pm.proxies)])

\* a getAxiosConfig that rotates before it picks the proxy of the request
GetAxiosConfig_RotateFirst(pm) ==
  LET cur == GetCurrentProxy(pm) IN
  IF cur.proxy = NoProxy
  THEN [pm |-> cur.pm, proxy |-> NoProxy]
  ELSE LET counted == [cur.pm EXCEPT !.requestCount = @ + 1]
           rotated == IF counted.requestCount % RotationInterval = 0
                      THEN GetNextProxy(counted)
                      ELSE [pm |-> counted, proxy |-> cur.proxy]
       IN [pm |-> [rotated.pm EXCEPT
                     !.proxyStats[rotated.proxy.id].requests = @ + 1],
           proxy |-> rotated.proxy]

\* getAxiosConfig(timeout): [pm |-> manager afterwards,
\*                           proxy |-> proxy the agents are built for]
GetAxiosConfig(pm) ==
  LET cur == GetCurrentProxy(pm) IN
  IF cur.proxy = NoProxy
  THEN [pm |-> cur.pm, proxy |-> NoProxy]
  ELSE LET counted == [cur.pm EXCEPT !.requestCount = @ + 1]
           rotated == IF counted.requestCount % RotationInterval = 0
                      THEN GetNextProxy(counted).pm
                      ELSE counted
       IN [pm |-> [rotated EXCEPT !.proxyStats[cur.proxy.id].requests = @ + 1],
           proxy |-> cur.proxy]

\* a markProxyFailed that leaves the cursor on the proxy it marked
MarkProxyFailed_NoRotate(pm, proxy) ==
  IF proxy = NoProxy
  THEN pm
  ELSE [pm EXCEPT !.failedProxies = @ \cup {proxy.id},
                  !.proxyStats[proxy.id].failures = @ + 1]

\* markProxyFailed(proxy, error)
MarkProxyFailed(pm, proxy) ==
  IF proxy = NoProxy
  THEN pm
  ELSE GetNextProxy(
         [pm EXCEPT !.failedProxies = @ \cup {proxy.id},
                    !.proxyStats[proxy.id].failures = @ + 1]).pm

\* markProxySuccess(proxy, responseTime)
MarkProxySuccess(pm, proxy) ==
  IF proxy = NoProxy
  THEN pm
  ELSE [pm EXCEPT !.proxyStats[proxy.id].successes = @ + 1]

\* ProxyManager.getProxyStats(): [pm |-> manager afterwards,
\*                                value |-> the object returned]
GetProxyStats(pm) ==
  [pm |-> pm,
   value |-> [id \in (DOMAIN pm.proxyStats) \cap ProxyIds(pm.proxies) |->
                [requests |-> pm.proxyStats[id].requests,
                 successes |-> pm.proxyStats[id].successes,
                 failures |-> pm.proxyStats[id].failures,
                 status |-> IF id \in pm.failedProxies
                            THEN "Failed" ELSE "Active"]]]

\* ProxyManager.getSummary(): it asks getCurrentProxy() for the current proxy
GetSummary(pm) ==
  LET cur == GetCurrentProxy(pm)
  IN [pm |-> cur.pm,
      value |-> [total |-> Len(pm.proxies),
                 active |-> Len(pm.proxies) - Cardinality(pm.failedProxies),
                 failed |-> Cardinality(pm.failedProxies),
                 currentProxy |-> cur.proxy.id,
                 requestCount |-> pm.requestCount]]


(***************************************************************************)
(* BlockchainAPI: provider registry and quota window                       *)
(***************************************************************************)

ZeroCounts == [p \in Providers |-> 0]

\* switchProvider(): the cursor after the switch
switchProvider(idx) == (idx + 1) % NumProviders

\* a window that is reset only after more than one hour
ResetDue_Late(t, last) == (t - last) > Hour

\* checkRateLimit, line 75-77: hoursSinceReset >= 1
ResetDue(t, last) == (t - last) >= Hour

\* a quota check that lets a provider at quota through
AtQuota_OffByOne(count, p) == count > rateLimit(p)

\* checkRateLimit, line 85: currentCount >= provider.rateLimit
AtQuota(count, p) == count >= rateLimit(p)

\* checkRateLimit(): it calls itself after each switch, one stack frame per
\* call; when the stack is full the engine throws RangeError.
\*   [overflow, idx, counts, last, frames]: cursor, counters and window
\*   start when it returns (overflow = FALSE) or throws (overflow = TRUE),
\*   and the number of frames it used
RECURSIVE checkRateLimit(_, _, _, _, _)
checkRateLimit(idx, counts, last, t, depth) ==
  LET reset == ResetDue(t, last)
      counts1 == IF reset THEN ZeroCounts ELSE counts
      last1 == IF reset THEN t ELSE last
  IN IF depth > StackLimit
     THEN [overflow |-> TRUE, idx |-> idx, counts |-> counts, last |-> last,
           frames |-> StackLimit]
     ELSE IF AtQuota(counts1[idx], idx)
          THEN checkRateLimit(switchProvider(idx), counts1, last1, t, depth + 1)
          ELSE [overflow |-> FALSE, idx |-> idx, counts |-> counts1,
                last |-> last1, frames |-> depth]

(***************************************************************************)
(* HTTP attempts                                                           *)
(***************************************************************************)

\* what one axios.get can end in: a 2xx response carrying balance 0, a
\* positive balance, no body at all (data undefined) or a body of another
\* shape than the provider documents (e.g. {"error": "..."}); status 429;
\* a transport error (ECONNREFUSED, ETIMEDOUT, ENOTFOUND); any other error
\* (e.g. status 500)
Outcomes == {"ok0", "ok1", "okNull", "okOdd", "e429", "eConn", "eHttp"}

IsResponse(o) == o \in {"ok0", "ok1", "ok2", "okNull", "okOdd"}

\* a response whose shape the provider's parser does not expect
UnexpectedShape(o) == o \in {"okNull", "okOdd"}

\* makeRequest, line 127: error.code is ECONNREFUSED, ETIMEDOUT or ENOTFOUND
IsProxyError(o) == o = "eConn"

\* checkBalance, line 164: error.response?.status === 429
Is429(o) == o = "e429"

\* a counter that is set instead of incremented
CountRequest_Overwrite(counts, p) == [counts EXCEPT ![p] = 1]

\* makeRequest, line 120-121: requestCounts.set(name, currentCount + 1)
CountRequest(counts, p) == [counts EXCEPT ![p] = @ + 1]

\* makeRequest, line 131: attempt === this.retryAttempts
LastAttempt(attempt) == attempt = RetryAttempts

\* a backoff that does not grow with the attempt number
BackoffDelay_Constant(attempt) == RetryDelay

\* makeRequest, line 136: the delay before the next attempt
BackoffDelay(attempt) == RetryDelay * attempt

\* providers[p].parseBalance(response): the balance returned, or threw when
\* reading a property of the missing body throws TypeError (Blockchain.info
\* parses the body with parseInt, which yields NaN and so 0); in a body of
\* another shape the fields read are undefined and "|| 0" makes them 0
parseBalance(p, o) ==
  CASE o = "ok1" -> [threw |-> FALSE, balance |-> 1]
    [] o = "ok2" -> [threw |-> FALSE, balance |-> 2]
    [] o = "ok0" -> [threw |-> FALSE, balance |-> 0]
    [] o = "okOdd" -> [threw |-> FALSE, balance |-> 0]
    [] OTHER -> [threw |-> p # 1, balance |-> 0]

\* the object checkBalance returns on success (line 155-161)
SuccessResult(address, p, balance) ==
  [address |-> address, success |-> TRUE, balance |-> balance,
   provider |-> ProviderName(p), error |-> None]

\* the object checkBalance returns on failure (line 169-176)
FailureResult(address, p, message) ==
  [address |-> address, success |-> FALSE, balance |-> 0,
   provider |-> ProviderName(p), error |-> message]

(***************************************************************************)
(* State                                                                   *)
(***************************************************************************)

VARIABLES
  rateLimitPerSecond,   \* concurrency of this.limiter
  proxyManager,         \* this.proxyManager
  currentProviderIndex, \* this.currentProviderIndex
  requestCounts,        \* this.requestCounts (absent key = 0)
  lastResetTime,        \* this.lastResetTime
  now,                  \* Date.now(), in ticks
  activeCount,          \* p-limit: bodies running
  queue,                \* p-limit: calls waiting, in arrival order
  calls,                \* every checkBalance call made so far
  addresses,            \* number of addresses the caller is going to check
  topCalls,             \* number of top-level checkBalance calls made for
                        \* the addresses the caller is checking
  successCount,         \* history: successful attempts per provider since
                        \* the last window reset
  proxyFile,            \* text of the file at this.proxyFile
  batch,                \* the call of checkBalances or hasPositiveBalance
                        \* the caller made, and its promise
  tests,                \* the call of testAllProxies and its canary requests
  hunter                \* the BitcoinMnemonicHunter that owns the client

vars == <<rateLimitPerSecond, proxyManager, currentProviderIndex,
          requestCounts, lastResetTime, now, activeCount, queue, calls,
          addresses, topCalls, successCount, proxyFile, batch, tests,
          hunter>>

\* what the constructor and the caller fix once
config == <<rateLimitPerSecond, addresses, proxyFile>>

CallIds == 1 .. Len(calls)

\* no provider chosen yet
NoProvider == NumProviders

\* the promise of a call that has not been fulfilled carries no result
NoResult ==
  [address |-> 0, success |-> FALSE, balance |-> 0, provider |-> None,
   error |-> None]

\* a call that has just been made: queued on the limiter.  frames (stack
\* frames its checkRateLimit used), exhausted (every provider was at quota
\* when it was admitted), httpOk (its request got a response), delays and
\* depth (429 retries that led to it) and response (the reply its request
\* got) record history.
NewCall(address, parent, depth) ==
  [pc |-> "queued", address |-> address, parent |-> parent, depth |-> depth,
   provider |-> NoProvider, attempt |-> 0, currentProxy |-> NoProxy,
   via |-> NoProxy, delays |-> << >>, lastError |-> None, result |-> NoResult,
   frames |-> 0, exhausted |-> FALSE, httpOk |-> FALSE, response |-> None]

Settled(c) == calls[c].pc \in {"resolved", "rejected"}

\* the call that call c made after a 429 and is waiting for
ChildOf(c) == CHOOSE d \in CallIds : calls[d].parent = c


(***************************************************************************)
(* Initial state: the fields the two constructors set                      *)
(***************************************************************************)

\* no call of checkBalances or hasPositiveBalance has been made.  op is the
\* method called, input its argument, ids the checkBalance calls it made
\* (in input order), state the state of its promise, results the array
\* Promise.all produced, found the position in results of the result
\* hasPositiveBalance returned (0: undefined)
NoBatch ==
  [op |-> None, input |-> << >>, ids |-> << >>, state |-> None,
   results |-> << >>, found |-> 0]

\* testAllProxies has not been called.  proxies is the array it mapped,
\* outcome the state of each testProxy ("get": its canary request is in
\* flight, "ok": it returned true, "failed": it returned false), clean
\* whether the failed set was empty when it was called, returned the object
\* it returned, runs the number of calls made
NoTests ==
  [state |-> None, proxies |-> << >>, outcome |-> << >>, clean |-> FALSE,
   returned |-> [working |-> 0, failed |-> 0, total |-> 0], runs |-> 0]

\* the client is used without a hunter.  pc is the await the hunter stands
\* at, minBalance is config.blockchain.minBalance, foundWallets the length
\* of this.foundWallets, rounds the iterationCount of start(), stopped
\* whether stop() has been called
NoHunter ==
  [pc |-> None, isRunning |-> FALSE, minBalance |-> 0, foundWallets |-> 0,
   rounds |-> 0, stopped |-> FALSE]

\* new BitcoinMnemonicHunter(config), line 25-48
NewHunter(minBalance) ==
  [NoHunter EXCEPT !.pc = "constructed", !.minBalance = minBalance]

\* the state after new BlockchainAPI({rateLimitPerSecond: concurrency}) with
\* the proxy file holding the text data, before the first of n checks
ConstructedClient(concurrency, data, n) ==
  /\ rateLimitPerSecond = concurrency
  /\ proxyFile = data
  /\ batch = NoBatch
  /\ tests = NoTests
  /\ proxyManager = NewProxyManager(data)
  /\ addresses = n
  /\ currentProviderIndex = 0
  /\ requestCounts = ZeroCounts
  /\ lastResetTime = 0
  /\ now = 0
  /\ activeCount = 0
  /\ queue = << >>
  /\ calls = << >>
  /\ topCalls = 0
  /\ successCount = ZeroCounts

\* a client constructed on its own
Constructed(concurrency, data, n) ==
  /\ ConstructedClient(concurrency, data, n)
  /\ hunter = NoHunter

\* a client constructed without a proxy file ("Running without proxies"),
\* any concurrency, any number of addresses
Init ==
  \E concurrency \in 1 .. MaxConcurrent, n \in 1 .. MaxChecks :
    Constructed(concurrency, << >>, n)

(***************************************************************************)
(* The limiter (p-limit)                                                   *)
(***************************************************************************)

\* a limiter that admits one body too many
LimiterHasSlot_OffByOne(active, concurrency) == active <= concurrency

\* p-limit admits the head of its queue while activeCount < concurrency
LimiterHasSlot(active, concurrency) == active < concurrency

\* a body is about to be started by the limiter
AdmitPending == queue # << >> /\ LimiterHasSlot(activeCount, rateLimitPerSecond)

\* an inner checkBalance has settled and its caller has not yet resumed
ResumePending ==
  \E c \in CallIds :
    calls[c].pc = "await" /\ \E d \in CallIds : calls[d].parent = c /\ Settled(d)

\* Promise.all of the batch can settle: one of its calls has rejected, or
\* all of them have resolved
SettlePending ==
  /\ batch.state = "pending"
  /\ \/ \E i \in 1 .. Len(batch.ids) : calls[batch.ids[i]].pc = "rejected"
     \/ \A i \in 1 .. Len(batch.ids) : calls[batch.ids[i]].pc = "resolved"

\* a promise the hunter awaits has settled and the hunter has not yet
\* continued: hasPositiveBalance, saveWalletDetails (which awaits nothing)
\* or generateAndCheck
HunterPending ==
  \/ hunter.pc = "check" /\ batch.state \in {"resolved", "rejected"}
  \/ hunter.pc \in {"save", "iterate"}

\* promise jobs run before the next timer, signal or socket event is handled
MicrotaskPending ==
  AdmitPending \/ ResumePending \/ SettlePending \/ HunterPending

(***************************************************************************)
(* Actions                                                                 *)
(***************************************************************************)

\* a caller invokes checkBalance(address): the body is queued on the limiter
CheckBalance ==
  /\ topCalls < addresses
  /\ batch = NoBatch
  /\ topCalls' = topCalls + 1
  /\ calls' = Append(calls, NewCall(topCalls + 1, 0, 0))
  /\ queue' = Append(queue, Len(calls) + 1)
  /\ UNCHANGED <<config, proxyManager, currentProviderIndex, requestCounts,
                 lastResetTime, now, activeCount, successCount, batch,
                 tests, hunter>>

\* the start of one iteration of makeRequest's loop, up to axios.get
\* (line 100-111): the fields of call c and the proxy manager afterwards
BeginAttempt(call, pm) ==
  LET cfg == GetAxiosConfig(pm)
      cur == GetCurrentProxy(cfg.pm)
  IN [call |-> [call EXCEPT !.pc = "http", !.attempt = @ + 1,
                            !.via = cfg.proxy, !.currentProxy = cur.proxy],
      pm |-> cur.pm]

\* the limiter starts the body of the call at the head of its queue:
\* checkRateLimit, getCurrentProvider, and makeRequest up to its first await
Admit ==
  /\ AdmitPending
  /\ LET c == Head(queue)
         crl == checkRateLimit(currentProviderIndex, requestCounts,
                               lastResetTime, now, 1)
         seen == [calls[c] EXCEPT
                    !.frames = crl.frames,
                    !.exhausted = \A p \in Providers :
                                    crl.counts[p] >= rateLimit(p)]
     IN /\ queue' = Tail(queue)
        /\ requestCounts' = crl.counts
        /\ lastResetTime' = crl.last
        /\ successCount' = IF crl.last # lastResetTime
                           THEN ZeroCounts ELSE successCount
        /\ IF crl.overflow
           THEN \* RangeError leaves the body: the promise rejects and the
                \* limiter frees the slot; the cursor stops where the
                \* recursion was cut
                /\ currentProviderIndex' \in Providers
                /\ calls' = [calls EXCEPT ![c] = [seen EXCEPT
                                                     !.pc = "rejected"]]
                /\ UNCHANGED <<activeCount, proxyManager>>
           ELSE LET b == BeginAttempt([seen EXCEPT !.provider = crl.idx],
                                      proxyManager)
                IN /\ currentProviderIndex' = crl.idx
                   /\ calls' = [calls EXCEPT ![c] = b.call]
                   /\ proxyManager' = b.pm
                   /\ activeCount' = activeCount + 1
  /\ UNCHANGED <<config, now, topCalls, batch, tests, hunter>>

\* axios.get of call c ends with outcome o: the rest of makeRequest's loop
\* iteration and, when makeRequest returns or throws, the rest of the body
HttpReturn(c, o) ==
  /\ ~MicrotaskPending
  /\ calls[c].pc = "http"
  /\ LET call == calls[c]
         p == call.provider
     IN IF IsResponse(o)
        THEN \* line 112-123, then 153-161 or the catch at 162-176
             LET parsed == parseBalance(p, o)
                 result == IF parsed.threw
                           THEN FailureResult(call.address, p, "TypeError")
                           ELSE SuccessResult(call.address, p, parsed.balance)
             IN /\ proxyManager' = MarkProxySuccess(proxyManager,
                                                    call.currentProxy)
                /\ requestCounts' = CountRequest(requestCounts, p)
                /\ successCount' = [successCount EXCEPT ![p] = @ + 1]
                /\ calls' = [calls EXCEPT ![c].pc = "resolved",
                                          ![c].httpOk = TRUE,
                                          ![c].response = o,
                                          ![c].result = result]
                /\ activeCount' = activeCount - 1
                /\ UNCHANGED <<currentProviderIndex, queue>>
        ELSE \* the catch of makeRequest, line 124-137
             LET cur == GetCurrentProxy(proxyManager)
                 pm1 == IF cur.proxy # NoProxy /\ IsProxyError(o)
                        THEN MarkProxyFailed(cur.pm, cur.proxy)
                        ELSE cur.pm
             IN /\ proxyManager' = pm1
                /\ UNCHANGED <<requestCounts, successCount>>
                /\ IF ~LastAttempt(call.attempt)
                   THEN \* line 136: sleep, then the next attempt
                        /\ calls' = [calls EXCEPT
                                       ![c].pc = "sleep",
                                       ![c].lastError = o,
                                       ![c].delays =
                                         Append(@, BackoffDelay(call.attempt))]
                        /\ UNCHANGED <<currentProviderIndex, queue,
                                       activeCount>>
                   ELSE IF Is429(o)
                        THEN \* line 164-166: switch, call checkBalance again
                             \* and wait for it, still holding the slot
                             /\ currentProviderIndex' =
                                  switchProvider(currentProviderIndex)
                             /\ calls' = Append(
                                  [calls EXCEPT ![c].pc = "await",
                                                ![c].lastError = o],
                                  NewCall(call.address, c, call.depth + 1))
                             /\ queue' = Append(queue, Len(calls) + 1)
                             /\ UNCHANGED activeCount
                        ELSE \* line 169-176
                             /\ calls' = [calls EXCEPT
                                            ![c].pc = "resolved",
                                            ![c].lastError = o,
                                            ![c].result =
                                              FailureResult(call.address, p, o)]
                             /\ activeCount' = activeCount - 1
                             /\ UNCHANGED <<currentProviderIndex, queue>>
  /\ UNCHANGED <<config, lastResetTime, now, topCalls, batch, tests,
               hunter>>

\* the timer of line 136 fires: the next iteration of makeRequest's loop
Wake(c) ==
  /\ ~MicrotaskPending
  /\ calls[c].pc = "sleep"
  /\ LET b == BeginAttempt(calls[c], proxyManager)
     IN /\ calls' = [calls EXCEPT ![c] = b.call]
        /\ proxyManager' = b.pm
  /\ UNCHANGED <<config, currentProviderIndex, requestCounts,
                 lastResetTime, now, activeCount, queue, topCalls,
                 successCount, batch, tests, hunter>>

\* the inner checkBalance of call c has settled (line 166): c settles the
\* same way and the limiter frees its slot
Resume(c) ==
  /\ calls[c].pc = "await"
  /\ \E d \in CallIds :
       /\ calls[d].parent = c
       /\ Settled(d)
       /\ calls' = [calls EXCEPT ![c].pc = calls[d].pc,
                                 ![c].result = calls[d].result]
  /\ activeCount' = activeCount - 1
  /\ UNCHANGED <<config, proxyManager, currentProviderIndex,
                 requestCounts, lastResetTime, now, queue, topCalls,
                 successCount, batch, tests, hunter>>

\* the clock advances
Tick ==
  /\ ~MicrotaskPending
  /\ now < MaxTime
  /\ now' = now + 1
  /\ UNCHANGED <<config, proxyManager, currentProviderIndex,
                 requestCounts, lastResetTime, activeCount, queue, calls,
                 topCalls, successCount, batch, tests, hunter>>

(***************************************************************************)
(* checkBalances and hasPositiveBalance                                    *)
(***************************************************************************)

\* a Promise.all that lists its results from the last call to the first
BatchResults_Reversed(ids) ==
  [i \in 1 .. Len(ids) |-> calls[ids[Len(ids) + 1 - i]].result]

\* Promise.all(promises) once every promise is fulfilled: the values, in the
\* order of the promises
BatchResults(ids) == [i \in 1 .. Len(ids) |-> calls[ids[i]].result]

\* result => result.success && result.balance > 0
IsPositive(result) == result.success /\ result.balance > 0

\* a find that returns the last match
FindPositive_Last(results) ==
  IF \E i \in 1 .. Len(results) : IsPositive(results[i])
  THEN CHOOSE i \in 1 .. Len(results) :
         /\ IsPositive(results[i])
         /\ \A j \in (i + 1) .. Len(results) : ~IsPositive(results[j])
  ELSE 0

\* results.find(...): the position of the first match, 0 for undefined
FindPositive(results) ==
  IF \E i \in 1 .. Len(results) : IsPositive(results[i])
  THEN CHOOSE i \in 1 .. Len(results) :
         /\ IsPositive(results[i])
         /\ \A j \in 1 .. (i - 1) : ~IsPositive(results[j])
  ELSE 0

\* checkBalances(input), line 185: one checkBalance call per address, each
\* queued on the limiter, in input order
StartBatch(op, input) ==
  /\ batch = NoBatch
  /\ topCalls = 0
  /\ Len(input) = addresses
  /\ LET ids == [i \in 1 .. Len(input) |-> Len(calls) + i]
     IN /\ calls' = calls \o [i \in 1 .. Len(input) |->
                                NewCall(input[i], 0, 0)]
        /\ queue' = queue \o ids
        /\ batch' = [NoBatch EXCEPT !.op = op, !.input = input, !.ids = ids,
                                    !.state = "pending"]
  /\ topCalls' = addresses
  /\ UNCHANGED <<config, proxyManager, currentProviderIndex, requestCounts,
                 lastResetTime, now, activeCount, successCount, tests>>

\* the arrays of n addresses a caller passes: the addresses 1 .. n in
\* ascending or in descending order
Inputs(n) == {[i \in 1 .. n |-> i], [i \in 1 .. n |-> n + 1 - i]}

\* a caller invokes checkBalances(input)
CheckBalances ==
  /\ \E input \in Inputs(addresses) : StartBatch("checkBalances", input)
  /\ UNCHANGED hunter

\* a caller invokes hasPositiveBalance(input), which calls checkBalances
HasPositiveBalance ==
  /\ \E input \in Inputs(addresses) : StartBatch("hasPositiveBalance", input)
  /\ UNCHANGED hunter

\* Promise.all settles (line 186) and, in hasPositiveBalance, the await of
\* line 193 continues with find (line 194) or throws
Settle ==
  /\ SettlePending
  /\ IF \E i \in 1 .. Len(batch.ids) : calls[batch.ids[i]].pc = "rejected"
     THEN batch' = [batch EXCEPT !.state = "rejected"]
     ELSE LET results == BatchResults(batch.ids)
          IN batch' = [batch EXCEPT
                         !.state = "resolved",
                         !.results = results,
                         !.found = IF batch.op = "hasPositiveBalance"
                                   THEN FindPositive(results) ELSE 0]
  /\ UNCHANGED <<config, proxyManager, currentProviderIndex, requestCounts,
                 lastResetTime, now, activeCount, queue, calls, topCalls,
                 successCount, tests, hunter>>

(***************************************************************************)
(* The proxy file read again, and the statistics views                     *)
(***************************************************************************)

\* loadProxies() is called on the client's proxy manager
LoadProxies ==
  /\ proxyManager' = loadProxies(proxyManager, proxyFile)
  /\ UNCHANGED <<config, currentProviderIndex, requestCounts, lastResetTime,
                 now, activeCount, queue, calls, topCalls, successCount,
                 batch, tests, hunter>>

\* the object getUsageStats() returns: an entry for every key of
\* this.requestCounts
UsageStats(counts) ==
  [p \in {q \in Providers : counts[q] > 0} |->
     [requests |-> counts[p],
      limit |-> rateLimit(p),
      remaining |-> IF rateLimit(p) - counts[p] > 0
                    THEN rateLimit(p) - counts[p] ELSE 0]]

\* getUsageStats(): it reads this.requestCounts and this.providers
getUsageStats == UNCHANGED vars

\* getProxyStats(): return this.proxyManager.getProxyStats()
getProxyStats ==
  /\ proxyManager' = GetProxyStats(proxyManager).pm
  /\ UNCHANGED <<config, currentProviderIndex, requestCounts, lastResetTime,
                 now, activeCount, queue, calls, topCalls, successCount,
                 batch, tests, hunter>>

\* getProxySummary(): return this.proxyManager.getSummary()
getProxySummary ==
  /\ proxyManager' = GetSummary(proxyManager).pm
  /\ UNCHANGED <<config, currentProviderIndex, requestCounts, lastResetTime,
                 now, activeCount, queue, calls, topCalls, successCount,
                 batch, tests, hunter>>

Next ==
  \/ CheckBalance
  \/ Admit
  \/ \E c \in CallIds, o \in Outcomes : HttpReturn(c, o)
  \/ \E c \in CallIds : Wake(c)
  \/ \E c \in CallIds : Resume(c)
  \/ Tick

Spec == Init /\ [][Next]_vars

(***************************************************************************)
(* The same client under heavier load, with services that either answer    *)
(* with a positive balance or with status 429: enough successful checks to *)
(* bring every provider to its quota, and enough limiter slots for a long  *)
(* chain of 429 retries.                                                   *)
(***************************************************************************)

\* checks made one after the other until every provider is at quota
QuotaChecks == 4

\* concurrent checks that can exhaust a provider behind each other's back
RaceChecks == 3

\* limiter slots held by one chain of 429 retries
StormConcurrent == 7

QuotaReplies == {"ok1", "e429"}

InitQuota ==
  \/ Constructed(1, << >>, QuotaChecks)
  \/ Constructed(2, << >>, RaceChecks)
  \/ Constructed(StormConcurrent, << >>, 1)

NextQuota ==
  \/ CheckBalance
  \/ Admit
  \/ \E c \in CallIds, o \in QuotaReplies : HttpReturn(c, o)
  \/ \E c \in CallIds : Wake(c)
  \/ \E c \in CallIds : Resume(c)
  \/ Tick

SpecQuota == InitQuota /\ [][NextQuota]_vars


(***************************************************************************)
(* One check on its own, with every outcome of its requests: the retry     *)
(* loop of makeRequest and what checkBalance does with its error.          *)
(***************************************************************************)

InitRetry ==
  \E concurrency \in 1 .. MaxConcurrent : Constructed(concurrency, << >>, 1)

SpecRetry == InitRetry /\ [][Next]_vars

(***************************************************************************)
(* Proxy files.  A line is made of optional white space around it, an      *)
(* optional leading #, and some fields with colons between them.           *)
(***************************************************************************)

\* most fields on one line of a proxy file
MaxFields == 4

\* most lines in a proxy file
MaxLines == 3

\* the text of the i-th field of a line
FieldText(i) ==
  CASE i = 1 -> <<"h">>
    [] i = 2 -> <<"1">>
    [] i = 3 -> <<"u">>
    [] i = 4 -> <<"w">>
    [] OTHER -> <<"x">>

\* a line of n fields, with or without white space around it and a leading #
Line(padded, marked, n) ==
  LET pad == IF padded THEN <<" ">> ELSE << >>
      mark == IF marked THEN <<"#">> ELSE << >>
  IN pad \o mark \o Join([i \in 1 .. n |-> FieldText(i)], ":") \o pad

\* the lines of at most MaxFields fields: plain, with white space around
\* them, or with a leading #
Lines ==
  {Line(FALSE, FALSE, n) : n \in 0 .. MaxFields}
    \cup {Line(TRUE, FALSE, n) : n \in 0 .. MaxFields}
    \cup {Line(FALSE, TRUE, n) : n \in 0 .. MaxFields}

\* the texts of the files of at most most lines
Files(most) ==
  {Join(lines, "\n") :
     lines \in UNION {[1 .. k -> Lines] : k \in 0 .. most}}

\* a client constructed on any of these files; nothing is checked
InitLoad == \E data \in Files(MaxLines) : Constructed(1, data, 1)

NextLoad == LoadProxies

SpecLoad == InitLoad /\ [][NextLoad]_vars

(***************************************************************************)
(* A client with a proxy pool: checks whose requests fail or succeed, the  *)
(* proxy file read again, and the statistics views.                        *)
(***************************************************************************)

\* most proxies in the pool
MaxPool == 2

\* the lines host:port and host:port:username:password
PoolLines == {Line(FALSE, FALSE, 2), Line(FALSE, FALSE, 4)}

\* files of one to most such lines; a line may occur twice
PoolFiles(most) ==
  {Join(lines, "\n") :
     lines \in UNION {[1 .. k -> PoolLines] : k \in 1 .. most}}

ProxyReplies == {"ok1", "eConn", "eHttp"}

InitProxy ==
  \E data \in PoolFiles(MaxPool), n \in 1 .. MaxChecks :
    Constructed(1, data, n)

NextProxy ==
  \/ CheckBalance
  \/ Admit
  \/ \E c \in CallIds, o \in ProxyReplies : HttpReturn(c, o)
  \/ \E c \in CallIds : Wake(c)
  \/ LoadProxies
  \/ getUsageStats
  \/ getProxyStats
  \/ getProxySummary

SpecProxy == InitProxy /\ [][NextProxy]_vars

(***************************************************************************)
(* One call of checkBalances or of hasPositiveBalance.                     *)
(***************************************************************************)

BatchReplies == {"ok0", "ok1", "eHttp", "e429"}

InitBatch ==
  \E concurrency \in 1 .. MaxConcurrent, n \in 1 .. MaxChecks :
    Constructed(concurrency, << >>, n)

NextBatch ==
  \/ CheckBalances
  \/ HasPositiveBalance
  \/ Admit
  \/ \E c \in CallIds, o \in BatchReplies : HttpReturn(c, o)
  \/ \E c \in CallIds : Wake(c)
  \/ \E c \in CallIds : Resume(c)
  \/ Settle

SpecBatch == InitBatch /\ [][NextBatch]_vars

(***************************************************************************)
(* testAllProxies: one canary request through every proxy of the pool      *)
(***************************************************************************)

\* most calls of testAllProxies
MaxTestRuns == 2

\* what the proxy tests and the pool operations leave alone
checks ==
  <<currentProviderIndex, requestCounts, lastResetTime, now, activeCount,
    queue, calls, topCalls, successCount, batch>>

\* testProxies() calls testAllProxies(): testProxy(proxy) is started for
\* every proxy of the pool and runs up to its axios.get (the import it
\* awaits first touches nothing)
testAllProxies ==
  /\ tests.state # "running"
  /\ tests.runs < MaxTestRuns
  /\ tests' = [state |-> "running",
               proxies |-> proxyManager.proxies,
               outcome |-> [i \in 1 .. Len(proxyManager.proxies) |-> "get"],
               clean |-> proxyManager.failedProxies = {},
               returned |-> NoTests.returned,
               runs |-> tests.runs + 1]
  /\ UNCHANGED <<config, proxyManager, checks, hunter>>

\* the canary request of the i-th testProxy ends, with a response (ok) or
\* with an error: line 253-257 or the catch at line 258-262
TestReturn(i, ok) ==
  /\ tests.state = "running"
  /\ i \in 1 .. Len(tests.outcome)
  /\ tests.outcome[i] = "get"
  /\ proxyManager' = IF ok
                     THEN MarkProxySuccess(proxyManager, tests.proxies[i])
                     ELSE MarkProxyFailed(proxyManager, tests.proxies[i])
  /\ tests' = [tests EXCEPT !.outcome[i] = IF ok THEN "ok" ELSE "failed"]
  /\ UNCHANGED <<config, checks, hunter>>

\* Promise.allSettled settles and testAllProxies counts (line 277-282)
TestsSettle ==
  /\ tests.state = "running"
  /\ \A i \in 1 .. Len(tests.outcome) : tests.outcome[i] # "get"
  /\ LET total == Len(tests.outcome)
         working == Cardinality({i \in 1 .. total : tests.outcome[i] = "ok"})
     IN tests' = [tests EXCEPT
                    !.state = "settled",
                    !.returned = [working |-> working,
                                  failed |-> total - working,
                                  total |-> total]]
  /\ UNCHANGED <<config, proxyManager, checks, hunter>>

InitTest == \E data \in PoolFiles(MaxPool) : Constructed(1, data, 1)

NextTest ==
  \/ testAllProxies
  \/ \E i \in 1 .. MaxPool, ok \in BOOLEAN : TestReturn(i, ok)
  \/ TestsSettle
  \/ getProxyStats

SpecTest == InitTest /\ [][NextTest]_vars

(***************************************************************************)
(* The operations of the pool, called in any order.                        *)
(***************************************************************************)

\* most requests configured through the pool
MaxRequests == 3

\* most successes and most failures recorded for one proxy
MaxMarks == 2

\* an operation of the pool returns, leaving the manager pm
PoolCall(pm) ==
  /\ proxyManager' = pm
  /\ UNCHANGED <<config, checks, tests, hunter>>

getCurrentProxy == PoolCall(GetCurrentProxy(proxyManager).pm)

getNextProxy == PoolCall(GetNextProxy(proxyManager).pm)

getAxiosConfig ==
  /\ proxyManager.requestCount < MaxRequests
  /\ PoolCall(GetAxiosConfig(proxyManager).pm)

\* markProxyFailed(proxy, error) for the i-th proxy of the pool
markProxyFailed(i) ==
  /\ i \in 1 .. Len(proxyManager.proxies)
  /\ proxyManager.proxyStats[proxyManager.proxies[i].id].failures < MaxMarks
  /\ PoolCall(MarkProxyFailed(proxyManager, proxyManager.proxies[i]))

\* markProxySuccess(proxy, responseTime) for the i-th proxy of the pool
markProxySuccess(i) ==
  /\ i \in 1 .. Len(proxyManager.proxies)
  /\ proxyManager.proxyStats[proxyManager.proxies[i].id].successes < MaxMarks
  /\ PoolCall(MarkProxySuccess(proxyManager, proxyManager.proxies[i]))

resetFailedProxies == PoolCall(ResetFailedProxies(proxyManager))

InitPool == \E data \in PoolFiles(MaxPool) : Constructed(1, data, 1)

NextPool ==
  \/ getCurrentProxy
  \/ getNextProxy
  \/ getAxiosConfig
  \/ \E i \in 1 .. MaxPool : markProxyFailed(i)
  \/ \E i \in 1 .. MaxPool : markProxySuccess(i)
  \/ resetFailedProxies

SpecPool == InitPool /\ [][NextPool]_vars

(***************************************************************************)
(* BitcoinMnemonicHunter: the hunting loop on top of the client            *)
(***************************************************************************)

\* most iterations of the loop of start()
MaxRounds == 2

\* largest config.blockchain.minBalance
MaxMinBalance == 1

\* config.blockchain.batchSize: iterations between two pauses of the loop
LoopBatchSize == 2

\* the while test of start() for a hunter with the fields h, then either the
\* return of start() or the next generateAndCheck up to its await: a wallet
\* set is generated and hasPositiveBalance is called on its addresses
NextRound(h) ==
  IF h.isRunning
  THEN /\ h.rounds < MaxRounds
       /\ \E input \in Inputs(addresses) :
            StartBatch("hasPositiveBalance", input)
       /\ hunter' = [h EXCEPT !.pc = "check"]
  ELSE /\ hunter' = [h EXCEPT !.pc = "ended"]
       /\ UNCHANGED <<config, proxyManager, checks, tests>>

\* start(), line 284-300, up to the first await
start ==
  /\ hunter.pc = "constructed"
  /\ NextRound([hunter EXCEPT !.isRunning = TRUE])

\* balanceResult && balanceResult.balance > this.config.blockchain.minBalance
IsFind(b, minBalance) ==
  /\ b.state = "resolved"
  /\ b.found # 0
  /\ b.results[b.found].balance > minBalance

\* generateAndCheck continues after hasPositiveBalance (line 125-137): a
\* find goes to handleSuccess, which clears isRunning and runs up to its
\* await of saveWalletDetails (line 144-176); anything else, a rejection
\* included, returns false
AfterHasPositiveBalance ==
  /\ hunter.pc = "check"
  /\ batch.state \in {"resolved", "rejected"}
  /\ hunter' = IF IsFind(batch, hunter.minBalance)
               THEN [hunter EXCEPT !.pc = "save", !.isRunning = FALSE]
               ELSE [hunter EXCEPT !.pc = "iterate"]
  /\ batch' = NoBatch
  /\ topCalls' = 0
  /\ UNCHANGED <<config, proxyManager, currentProviderIndex, requestCounts,
                 lastResetTime, now, activeCount, queue, calls, successCount,
                 tests>>

\* handleSuccess continues after saveWalletDetails (line 179-203) and
\* generateAndCheck returns true
AfterSaveWalletDetails ==
  /\ hunter.pc = "save"
  /\ hunter' = [hunter EXCEPT !.pc = "iterate",
                              !.foundWallets = @ + 1,
                              !.isRunning = TRUE]
  /\ UNCHANGED <<config, proxyManager, checks, tests>>

\* start() continues after generateAndCheck (line 302-338): the iteration
\* is counted and the loop pauses after every batchSize-th one, else goes
\* to its test
AfterGenerateAndCheck ==
  /\ hunter.pc = "iterate"
  /\ LET h == [hunter EXCEPT !.rounds = @ + 1]
     IN IF h.rounds % LoopBatchSize = 0
        THEN /\ hunter' = [h EXCEPT !.pc = "pause"]
             /\ UNCHANGED <<config, proxyManager, checks, tests>>
        ELSE NextRound(h)

\* the timer of line 337 fires: the loop goes to its test
AfterPause ==
  /\ ~MicrotaskPending
  /\ hunter.pc = "pause"
  /\ NextRound(hunter)

\* stop(), line 395-415
stop ==
  /\ ~MicrotaskPending
  /\ hunter.pc \in {"check", "pause", "ended"}
  /\ ~hunter.stopped
  /\ hunter' = [hunter EXCEPT !.isRunning = FALSE, !.stopped = TRUE]
  /\ UNCHANGED <<config, proxyManager, checks, tests>>

\* a signal arrives (line 421-425): stop(), then process.exit(0)
shutdown ==
  /\ ~MicrotaskPending
  /\ hunter.pc \in {"check", "pause", "ended"}
  /\ hunter' = [hunter EXCEPT !.isRunning = FALSE, !.stopped = TRUE,
                              !.pc = "exited"]
  /\ UNCHANGED <<config, proxyManager, checks, tests>>

\* the services answer with a balance of 0, 1 or 2 satoshi
HuntReplies == {"ok0", "ok1", "ok2"}

InitHunt ==
  \E concurrency \in 1 .. MaxConcurrent, n \in 1 .. MaxChecks,
     minBalance \in 0 .. MaxMinBalance :
    /\ ConstructedClient(concurrency, << >>, n)
    /\ hunter = NewHunter(minBalance)

NextHunt ==
  \/ start
  \/ AfterHasPositiveBalance
  \/ AfterSaveWalletDetails
  \/ AfterGenerateAndCheck
  \/ AfterPause
  \/ stop
  \/ shutdown
  \/ hunter.pc # "exited" /\ Admit
  \/ hunter.pc # "exited" /\ Settle
  \/ /\ hunter.pc # "exited"
     /\ \E c \in CallIds, o \in HuntReplies : HttpReturn(c, o)

SpecHunt == InitHunt /\ [][NextHunt]_vars

(***************************************************************************)
(* Properties                                                              *)
(***************************************************************************)

\* the bodies the limiter has started and that have not finished
InFlight == {c \in CallIds : calls[c].pc \in {"http", "sleep", "await"}}

\* makeRequest of call c threw: every attempt it made failed
Threw(c) ==
  /\ calls[c].pc \in {"await", "resolved", "rejected"}
  /\ calls[c].attempt > 0
  /\ ~calls[c].httpOk

\* the delays makeRequest waits when every attempt fails
ExpectedDelays == [i \in 1 .. (RetryAttempts - 1) |-> RetryDelay * i]

\* C1: a call to checkBalance never rejects: whenever it is settled it is
\* resolved, with success, a balance and no error, or with failure, balance 0
\* and an error message.
C1_NeverRejects ==
  \A c \in CallIds :
    /\ calls[c].pc # "rejected"
    /\ calls[c].pc = "resolved" =>
         \/ calls[c].result.success /\ calls[c].result.error = None
         \/ /\ ~calls[c].result.success
            /\ calls[c].result.balance = 0
            /\ calls[c].result.error # None

\* some call is unsettled and nothing the client is waiting for can still
\* happen: no body to admit, no request in flight, no timer, no inner call
\* to resume from
Stuck ==
  /\ \E c \in CallIds : ~Settled(c)
  /\ ~AdmitPending
  /\ ~ResumePending
  /\ \A c \in CallIds : calls[c].pc \notin {"http", "sleep"}

\* C2: every call to checkBalance eventually resolves, for every concurrency
\* and also after a 429: the client never reaches a state in which a call is
\* unsettled and no request, timer, admission or resumption is left to
\* settle it.
C2_EveryCallResolves == ~Stuck

\* C3: when every provider is at quota, provider selection ends within one
\* cycle over the registry and the check resolves to a failed result with
\* an all-exhausted error.
C3_AllExhaustedIsTerminal ==
  \A c \in CallIds :
    calls[c].exhausted =>
      /\ calls[c].frames <= NumProviders + 1
      /\ calls[c].pc = "resolved"
      /\ ~calls[c].result.success
      /\ calls[c].result.error = "AllProvidersExhausted"

\* C4: whenever checkRateLimit returns and a check starts its request, the
\* provider at the cursor, which is the provider the check uses, has
\* requestCount < hourlyQuota.
C4_SelectedProviderHasQuota ==
  [][\A c \in CallIds :
       (calls[c].pc = "queued" /\ calls'[c].pc = "http") =>
         /\ calls'[c].provider = currentProviderIndex'
         /\ requestCounts'[currentProviderIndex'] <
              rateLimit(currentProviderIndex')]_vars

\* C4 witness: a check was admitted after checkRateLimit skipped a provider
\* at quota
C4_Witness ==
  \E c \in CallIds :
    /\ calls[c].pc = "http"
    /\ calls[c].frames > 1
    /\ requestCounts[0] >= rateLimit(0)


\* C5: a provider's requestCount equals the number of successful HTTP
\* attempts made against it since the last window reset, under any
\* interleaving of checks; before the first reset that is the number of
\* calls whose request got a response from that provider.
C5_CountEqualsSuccesses ==
  /\ requestCounts = successCount
  /\ lastResetTime = 0 =>
       \A p \in Providers :
         requestCounts[p] =
           Cardinality({c \in CallIds :
                          calls[c].httpOk /\ calls[c].provider = p})

\* C5 witness: two checks were in flight against the same provider, one of
\* them had a failed attempt first, and both responses were counted
C5_Witness ==
  /\ lastResetTime = 0
  /\ \E p \in Providers :
       /\ requestCounts[p] = 2
       /\ \E c \in CallIds :
            /\ calls[c].httpOk
            /\ calls[c].provider = p
            /\ calls[c].lastError # None

\* C6: the window is reset only by the quota check and only when a full
\* hour has elapsed since the window start; the reset clears every counter
\* and sets the window start to the current time; a quota check made after a
\* full hour does reset; counters never decrease otherwise.
C6_LazyWindowReset ==
  [][/\ lastResetTime' # lastResetTime =>
          /\ now - lastResetTime >= Hour
          /\ Len(queue') < Len(queue)
          /\ lastResetTime' = now
          /\ requestCounts' = ZeroCounts
     /\ (Len(queue') < Len(queue) /\ now - lastResetTime >= Hour) =>
          /\ lastResetTime' = now
          /\ requestCounts' = ZeroCounts
     /\ (\E p \in Providers : requestCounts'[p] < requestCounts[p]) =>
          lastResetTime' # lastResetTime]_vars

\* C6 witness: a response was counted, the window was reset and cleared the
\* counters, and less than an hour later the window start is unchanged
C6_Witness ==
  /\ lastResetTime > 0
  /\ now > lastResetTime
  /\ requestCounts = ZeroCounts
  /\ \E c \in CallIds : calls[c].httpOk

\* C7: at most rateLimitPerSecond check bodies are mid-execution at any
\* moment, and a body is admitted only while fewer than that are in flight.
C7_ConcurrencyCap ==
  /\ [](Cardinality(InFlight) <= rateLimitPerSecond
        /\ activeCount = Cardinality(InFlight))
  /\ [][\A c \in CallIds :
          (calls[c].pc = "queued" /\ calls'[c].pc # "queued") =>
            Cardinality(InFlight) < rateLimitPerSecond]_vars

\* C7 witness: every slot is taken and a further call waits in the queue
C7_Witness ==
  /\ Cardinality(InFlight) = rateLimitPerSecond
  /\ queue # << >>


\* C8 as stated: when every attempt of a request fails, makeRequest has made
\* exactly retryAttempts attempts with delays retryDelay * attemptNumber
\* between them, and the check returns a failed result.
C8_AllFailedGivesFailedResult ==
  \A c \in CallIds :
    Threw(c) =>
      /\ calls[c].attempt = RetryAttempts
      /\ calls[c].delays = ExpectedDelays
      /\ Settled(c) => (calls[c].pc = "resolved" /\ ~calls[c].result.success)

\* C8 amended: when every attempt of a request fails, makeRequest has made
\* exactly retryAttempts attempts with delays retryDelay * attemptNumber
\* between them, and it surfaces the last error: unless that error is a 429
\* response the check resolves at once to a failed result carrying it; after
\* a 429 the check calls checkBalance again and settles as that call does.
\* No request is ever attempted more than retryAttempts times.
C8_RetriesThenLastError ==
  \A c \in CallIds :
    /\ calls[c].attempt <= RetryAttempts
    /\ Threw(c) =>
         /\ calls[c].attempt = RetryAttempts
         /\ calls[c].delays = ExpectedDelays
         /\ IF calls[c].lastError = "e429"
            THEN /\ \E d \in CallIds : calls[d].parent = c
                 /\ Settled(c) =>
                      /\ Settled(ChildOf(c))
                      /\ calls[c].pc = calls[ChildOf(c)].pc
                      /\ calls[c].result = calls[ChildOf(c)].result
            ELSE /\ calls[c].pc = "resolved"
                 /\ calls[c].result =
                      FailureResult(calls[c].address, calls[c].provider,
                                    calls[c].lastError)

\* C8 witness: a check whose three attempts all failed, the last one with a
\* transport error, has returned its failed result
C8_Witness ==
  \E c \in CallIds :
    /\ Threw(c)
    /\ calls[c].lastError = "eConn"
    /\ calls[c].pc = "resolved"
    /\ Len(calls[c].delays) = RetryAttempts - 1

\* C9: the retry of a check that received a 429 from provider P is issued
\* against the provider after P in the cycle (and so not against P).
C9_RetryOnNextProvider ==
  \A d \in CallIds :
    (calls[d].parent # 0 /\ calls[d].attempt > 0) =>
      calls[d].provider =
        (calls[calls[d].parent].provider + 1) % NumProviders

\* C10: the rotations one check performs in response to 429 responses are
\* bounded by the registry size times a small constant.
C10_RotationsBounded ==
  \A c \in CallIds : calls[c].depth <= NumProviders * RotationFactor

\* the ids of the proxies in the pool
PoolIds == ProxyIds(proxyManager.proxies)

\* C11: when an attempt sent through a proxy fails with a transport failure,
\* that proxy is in the failed set afterwards (or the failed set has just
\* been reset because every proxy had failed), and in a pool of several
\* proxies the next attempt of the same check goes through another proxy,
\* against the same provider and for the same address.
C11_FailedProxyMarkedAndLeft ==
  [][\A c \in CallIds :
       /\ ( /\ calls[c].pc = "http"
            /\ calls'[c].pc \in {"sleep", "resolved"}
            /\ ~calls'[c].httpOk
            /\ calls'[c].lastError = "eConn"
            /\ calls[c].via # NoProxy )
          => \/ calls[c].via.id \in proxyManager'.failedProxies
             \/ proxyManager'.failedProxies = {}
       /\ ( /\ calls[c].pc = "sleep"
            /\ calls'[c].pc = "http"
            /\ calls[c].lastError = "eConn"
            /\ calls[c].via # NoProxy
            /\ Cardinality(PoolIds) > 1 )
          => /\ calls'[c].via # calls[c].via
             /\ calls'[c].provider = calls[c].provider
             /\ calls'[c].address = calls[c].address]_vars

\* C12: a response whose shape the provider's parser does not expect makes
\* the check return success=false with an error; the check makes no further
\* attempt, and the step that handles the response neither advances the
\* provider cursor nor adds a proxy to the failed set.
C12_UnexpectedShapeFails ==
  /\ [](\A c \in CallIds :
          UnexpectedShape(calls[c].response) =>
            /\ calls[c].pc = "resolved"
            /\ ~calls[c].result.success
            /\ calls[c].result.error # None)
  /\ [][\A c \in CallIds :
          (calls[c].response = None /\ UnexpectedShape(calls'[c].response)) =>
            /\ currentProviderIndex' = currentProviderIndex
            /\ proxyManager'.failedProxies = proxyManager.failedProxies]_vars

\* the positions of the separators in a text
Seps(s, sep) == {i \in 1 .. Len(s) : s[i] = sep}

\* the position of the k-th separator; 0 before the first piece and
\* Len(s) + 1 after the last
SepPos(s, sep, k) ==
  IF k = 0
  THEN 0
  ELSE IF k > Cardinality(Seps(s, sep))
       THEN Len(s) + 1
       ELSE CHOOSE i \in Seps(s, sep) :
              Cardinality({j \in Seps(s, sep) : j <= i}) = k

\* the k-th piece of a text: what stands between two separators
PieceAt(s, sep, k) ==
  SubSeq(s, SepPos(s, sep, k - 1) + 1, SepPos(s, sep, k) - 1)

\* the lines of the proxy file, in file order
FileLines ==
  [k \in 1 .. (Cardinality(Seps(proxyFile, "\n")) + 1) |->
     PieceAt(proxyFile, "\n", k)]

\* a line that begins with #
CommentLine(line) == line # << >> /\ Head(line) = "#"

\* a line the loader may take a proxy from
Eligible(line) == ~CommentLine(line) /\ Trim(line) # << >>

\* C13: loading a proxy file never creates a proxy from a line that begins
\* with # or is blank after trimming: every proxy in the pool has the text
\* of a line that is neither, and there are no more proxies than such
\* lines.
C13_NoEntryFromCommentOrBlank ==
  /\ \A i \in 1 .. Len(proxyManager.proxies) :
       \E k \in 1 .. Len(FileLines) :
         /\ Eligible(FileLines[k])
         /\ proxyManager.proxies[i].id = Trim(FileLines[k])
  /\ Len(proxyManager.proxies)
       <= Cardinality({k \in 1 .. Len(FileLines) : Eligible(FileLines[k])})

\* a line of two or of four fields
WellFormed(line) == Cardinality(Seps(Trim(line), ":")) \in {1, 3}

\* C14: the pool holds one proxy for every line of two or of four
\* colon-separated fields, in file order, and none for any other line: a
\* line host:port gives a proxy of that host without credentials, a line
\* host:port:username:password one with that username and password.
C14_ArityDecidesEntry ==
  LET good == SelectSeq(FileLines, WellFormed)
  IN /\ Len(proxyManager.proxies) = Len(good)
     /\ \A i \in 1 .. Len(good) :
          LET text == Trim(good[i])
              proxy == proxyManager.proxies[i]
          IN /\ proxy.id = text
             /\ proxy.host = PieceAt(text, ":", 1)
             /\ proxy.port = parseInt(PieceAt(text, ":", 2))
             /\ IF Cardinality(Seps(text, ":")) = 1
                THEN proxy.auth = NoAuth
                ELSE /\ proxy.auth.given
                     /\ proxy.auth.username = PieceAt(text, ":", 3)
                     /\ proxy.auth.password = PieceAt(text, ":", 4)

\* C14 witness: a file of three lines, host:port, then a line of another
\* number of fields, then host:port:username:password, has given a pool of
\* two proxies, the first without and the second with credentials
C14_Witness ==
  /\ Len(FileLines) = 3
  /\ Cardinality(Seps(Trim(FileLines[1]), ":")) = 1
  /\ Trim(FileLines[2]) # << >>
  /\ ~WellFormed(FileLines[2])
  /\ Cardinality(Seps(Trim(FileLines[3]), ":")) = 3
  /\ Len(proxyManager.proxies) = 2
  /\ ~proxyManager.proxies[1].auth.given
  /\ proxyManager.proxies[2].auth.given

\* the identities of a list of proxies, in order
IdSeq(proxies) == [i \in 1 .. Len(proxies) |-> proxies[i].id]

\* C15: the identities in the pool are those a parse of the file's text
\* yields, in every state and so after every further load, whatever the
\* cursor, the failed set and the statistics were when it was made; an
\* identity determines its proxy (parsing it again gives the same proxy);
\* and no step changes the sequence of identities.
C15_IdentityFromTextAlone ==
  /\ [](/\ IdSeq(proxyManager.proxies) = IdSeq(ParseLines(proxyFile))
        /\ \A i \in 1 .. Len(proxyManager.proxies) :
             parseProxy(proxyManager.proxies[i].id) = proxyManager.proxies[i])
  /\ [][IdSeq(proxyManager'.proxies) = IdSeq(proxyManager.proxies)]_vars

\* C15 witness: the file was loaded again after requests had been made and
\* a proxy had failed: the statistics are back at zero while the request
\* counter, the failed set and the cursor are not
C15_Witness ==
  /\ Len(proxyManager.proxies) > 1
  /\ proxyManager.requestCount > 0
  /\ proxyManager.failedProxies # {}
  /\ proxyManager.currentProxyIndex > 0
  /\ \A id \in DOMAIN proxyManager.proxyStats :
       proxyManager.proxyStats[id] = ZeroStats

\* C16: for any non-empty pool, once every proxy has been marked failed,
\* getCurrentProxy returns a proxy and the failed set is empty afterwards.
C16_ExhaustedPoolResets ==
  ( /\ Len(proxyManager.proxies) > 0
    /\ \A i \in 1 .. Len(proxyManager.proxies) :
         proxyManager.proxies[i].id \in proxyManager.failedProxies )
  => /\ GetCurrentProxy(proxyManager).proxy # NoProxy
     /\ GetCurrentProxy(proxyManager).pm.failedProxies = {}

\* C17: when checkBalances returns, its array has one result per input
\* address and result i carries input address i, whichever checks failed.
C17_OneResultPerAddress ==
  batch.state = "resolved" =>
    /\ Len(batch.results) = Len(batch.input)
    /\ \A i \in 1 .. Len(batch.input) :
         /\ batch.results[i].address = batch.input[i]
         /\ batch.results[i] = calls[batch.ids[i]].result

\* C17 witness: checkBalances has returned for two different addresses; one
\* check failed and the other, which needed more attempts, succeeded
C17_Witness ==
  /\ batch.op = "checkBalances"
  /\ batch.state = "resolved"
  /\ Len(batch.input) = 2
  /\ batch.input[1] # batch.input[2]
  /\ batch.results[1].success
  /\ ~batch.results[2].success
  /\ calls[batch.ids[1]].attempt > 1

\* the positions of the checks of the batch that produced a result with
\* success and a positive balance
PositiveChecks ==
  {i \in 1 .. Len(batch.ids) :
     /\ calls[batch.ids[i]].pc = "resolved"
     /\ calls[batch.ids[i]].result.success
     /\ calls[batch.ids[i]].result.balance > 0}

\* C18: when hasPositiveBalance returns, it returns the first result in
\* input order that has success and a positive balance if any check produced
\* one, and undefined if none did.
C18_FirstPositiveInInputOrder ==
  (batch.op = "hasPositiveBalance" /\ batch.state = "resolved") =>
    IF PositiveChecks # {}
    THEN /\ batch.found \in PositiveChecks
         /\ \A i \in PositiveChecks : batch.found <= i
         /\ batch.results[batch.found] = calls[batch.ids[batch.found]].result
    ELSE batch.found = 0

\* C18 witness: two checks produced a positive balance and hasPositiveBalance
\* has returned
C18_Witness ==
  /\ batch.op = "hasPositiveBalance"
  /\ batch.state = "resolved"
  /\ Cardinality(PositiveChecks) = 2

\* C19: hasPositiveBalance short-circuits: once a check has produced a result
\* with success and a positive balance and the promise jobs that follow have
\* run, hasPositiveBalance has returned, also while sibling checks are in
\* flight.
C19_ShortCircuits ==
  ( /\ batch.op = "hasPositiveBalance"
    /\ PositiveChecks # {}
    /\ ~MicrotaskPending )
  => batch.state = "resolved"

\* C20: the statistics views are read-only.  In every reachable state
\* getProxyStats and getProxySummary leave the proxy manager (cursor, failed
\* set, metrics) as it is, and a step of any of the three views changes
\* neither the provider counters nor the provider cursor nor the proxy
\* manager.
C20_ViewsReadOnly ==
  /\ [](/\ GetProxyStats(proxyManager).pm = proxyManager
        /\ GetSummary(proxyManager).pm = proxyManager)
  /\ [][(getUsageStats \/ getProxyStats \/ getProxySummary) =>
          UNCHANGED <<requestCounts, currentProviderIndex, proxyManager>>]_vars

\* C20 witness: a state in which the views have something to disturb: a
\* proxy is in the failed set, the cursor has moved and requests are counted
C20_Witness ==
  /\ proxyManager.failedProxies # {}
  /\ proxyManager.currentProxyIndex > 0
  /\ \E p \in Providers : requestCounts[p] > 0
  /\ \E id \in DOMAIN proxyManager.proxyStats :
       proxyManager.proxyStats[id].failures > 0

\* the status getProxyStats reports for the proxy with this id
Status(id) == GetProxyStats(proxyManager).value[id].status

\* C21: once testAllProxies has returned for a pool whose failed set was
\* empty when it was called, every proxy whose canary request failed is
\* reported Failed, every proxy whose canary request succeeded is reported
\* Active, as many proxies are Failed as the failed count it returned, and
\* working + failed = total = size of the pool
C21_TestsPartitionPool ==
  (tests.state = "settled" /\ tests.clean) =>
    LET n == Len(tests.proxies)
    IN /\ \A i \in 1 .. n :
            /\ tests.outcome[i] = "failed"
                 => Status(tests.proxies[i].id) = "Failed"
            /\ tests.outcome[i] = "ok"
                 => Status(tests.proxies[i].id) = "Active"
       /\ Cardinality({i \in 1 .. n : Status(tests.proxies[i].id) = "Failed"})
            = tests.returned.failed
       /\ tests.returned.working + tests.returned.failed
            = tests.returned.total
       /\ tests.returned.total = Len(proxyManager.proxies)

\* the statistics entry of the proxy with this id
Stats(id) == proxyManager.proxyStats[id]

\* the ids with a statistics entry before and after a step
KnownIds == (DOMAIN proxyManager.proxyStats) \cap (DOMAIN proxyManager'.proxyStats)

\* C23: whenever a success is recorded for a proxy (by a client request or
\* by a proxy test), the proxy's request count has been incremented for that
\* attempt too: in the same step, or when the attempt was issued through it
C23_SuccessCountsRequest ==
  [][\A id \in KnownIds :
       Stats(id)'.successes = Stats(id).successes + 1 =>
         \/ Stats(id)'.requests = Stats(id).requests + 1
         \/ \E c \in CallIds :
              /\ calls[c].pc = "http"
              /\ calls'[c].httpOk
              /\ calls[c].via.id = id]_vars

\* getCurrentProxy() in the current state: the manager afterwards and the
\* proxy returned
Current == GetCurrentProxy(proxyManager)

\* the first position after the cursor, in cyclic order, whose proxy is not
\* in the failed set
NextUsable(pm) ==
  LET n == Len(pm.proxies)
      at(k) == (pm.currentProxyIndex + k) % n
      k == CHOOSE j \in 1 .. n :
             /\ pm.proxies[at(j) + 1].id \notin pm.failedProxies
             /\ \A i \in 1 .. (j - 1) :
                  pm.proxies[at(i) + 1].id \in pm.failedProxies
  IN at(k)

\* a request is issued through the pool in this step by call c, and it is a
\* rotationInterval-th one
RotationRequest(c) ==
  /\ calls'[c].attempt = calls[c].attempt + 1
  /\ proxyManager'.requestCount = proxyManager.requestCount + 1
  /\ proxyManager'.requestCount % RotationInterval = 0

\* C24 as stated: every rotationInterval-th request issued through a
\* non-empty pool moves the cursor one position on, and is itself sent
\* through the proxy that was current before
C24_RotationAdvancesOnce ==
  [][\A c \in CallIds :
       RotationRequest(c) =>
         /\ calls'[c].via = Current.proxy
         /\ proxyManager'.currentProxyIndex =
              (Current.pm.currentProxyIndex + 1) % Len(proxyManager.proxies)
    ]_vars

\* C24, amended: every rotationInterval-th request issued through a
\* non-empty pool moves the cursor to the next proxy in cyclic order that is
\* not in the failed set (which is the current one when no other is left),
\* and is itself sent through the proxy that was current before
C24_RotationToNextUsable ==
  [][\A c \in CallIds :
       RotationRequest(c) =>
         /\ calls'[c].via = Current.proxy
         /\ proxyManager'.currentProxyIndex = NextUsable(Current.pm)]_vars

\* a rotationInterval-th request is in flight through one proxy and the
\* cursor has moved on to another
C24_Witness ==
  \E c \in CallIds :
    /\ calls[c].pc = "http"
    /\ proxyManager.requestCount > 0
    /\ proxyManager.requestCount % RotationInterval = 0
    /\ calls[c].via # NoProxy
    /\ calls[c].via # Current.proxy

\* C25: when an HTTP attempt ends, a success or a failure is recorded on no
\* other proxy than the one the attempt was sent through
C25_OutcomeOnProxyUsed ==
  [][\A c \in CallIds :
       (calls[c].pc = "http" /\ calls'[c].pc # "http") =>
         \A id \in KnownIds :
           (\/ Stats(id)'.successes # Stats(id).successes
            \/ Stats(id)'.failures # Stats(id).failures)
             => id = calls[c].via.id]_vars

\* C26: for every proxy, successes + failures <= requests
C26_RateAtMostOne ==
  \A id \in DOMAIN proxyManager.proxyStats :
    Stats(id).successes + Stats(id).failures <= Stats(id).requests

\* C27: within a quota window no provider's request count exceeds its
\* hourly quota
C27_CountWithinQuota ==
  \A p \in Providers : requestCounts[p] <= rateLimit(p)

\* C29: with at least one proxy loaded getCurrentProxy returns a proxy, and
\* no request in flight is on a direct connection
C29_NeverDirect ==
  Len(proxyManager.proxies) > 0 =>
    /\ Current.proxy # NoProxy
    /\ \A c \in CallIds : calls[c].pc = "http" => calls[c].via # NoProxy

\* the identities of the pool are pairwise distinct
Distinct == Cardinality(PoolIds) = Len(proxyManager.proxies)

\* C28: for a non-empty pool of pairwise distinct identities, after any
\* operation of the pool has returned the cursor is a position of the pool,
\* the proxy at the cursor is not in the failed set, and the failed set is a
\* proper subset of the identities of the pool
C28_CursorOnUsableProxy ==
  (Len(proxyManager.proxies) > 0 /\ Distinct) =>
    /\ proxyManager.currentProxyIndex \in 0 .. (Len(proxyManager.proxies) - 1)
    /\ proxyManager.proxies[proxyManager.currentProxyIndex + 1].id
         \notin proxyManager.failedProxies
    /\ proxyManager.failedProxies \subseteq PoolIds
    /\ proxyManager.failedProxies # PoolIds

\* every proxy of a pool of two distinct identities has been marked failed,
\* requests have gone through the pool, and one proxy is failed now
C28_Witness ==
  /\ Distinct
  /\ Len(proxyManager.proxies) > 1
  /\ \A id \in PoolIds : Stats(id).failures > 0
  /\ proxyManager.requestCount > 0
  /\ proxyManager.failedProxies # {}

\* C22: once stop() has been called no balance check is started any more;
\* no later step, the handling of a found wallet included, lets the loop
\* call hasPositiveBalance again
C22_NoCheckAfterStop ==
  [][hunter.stopped => ~(batch = NoBatch /\ batch' # NoBatch)]_vars

\* C30: when hasPositiveBalance has settled and a check of the wallet set
\* has returned a successful result with a balance above minBalance, the
\* round goes to handleSuccess
C30_AnyAddressAboveThresholdIsFound ==
  [][(/\ hunter.pc = "check"
      /\ hunter'.pc \notin {"check", "exited"}
      /\ \E i \in 1 .. Len(batch.ids) :
           /\ calls[batch.ids[i]].pc = "resolved"
           /\ calls[batch.ids[i]].result.success
           /\ calls[batch.ids[i]].result.balance > hunter.minBalance)
       => hunter'.pc = "save"]_vars

=============================================================================
